---- MODULE Spec2Model ----
(***************************************************************************)
(* Model of audio/aidl/vts/VtsHalEqualizerTargetTest.cpp: the EqualizerTest *)
(* fixture (SetUp / TearDown / setTagRange), the range validator           *)
(* (isTagInRange, isBandInRange), the read-back comparator                 *)
(* (isEqParameterExpected) and the scenario driver                         *)
(* (SetAndGetEqualizerParameters) with the twelve TEST_P bodies.           *)
(*                                                                         *)
(* Three specifications share the module:                                  *)
(*   Spec       one test instance, from SetUp to TearDown, against an      *)
(*              effect service whose replies are unconstrained;            *)
(*   SpecRange  isTagInRange applied to inputs drawn from bounded sets;    *)
(*   SpecCmp    isEqParameterExpected applied to inputs drawn from bounded *)
(*              sets.                                                      *)
(***************************************************************************)
EXTENDS Integers, Sequences, FiniteSets, TLC

\* ------------------------------------------------------------------ bounds
MaxIdx == 2        \* capability indices are drawn from 0..MaxIdx
MaxCapLen == 2     \* longest preset / band list of a descriptor
MaxLen == 3        \* longest band-level list handed to the validator
MaxExpectLen == 3  \* longest band-level list written (comparator input)
MaxTargetLen == 2  \* longest band-level list read back (comparator input)

\* ------------------------------------------------------------ value model
\* line 68: const std::vector<int> kBandLevels = {0, -10, 10}
kBandLevels == {0, -10, 10}

\* Equalizer::BandLevel {index, levelMb}
BandLevel(i, l) == [index |-> i, levelMb |-> l]

\* Equalizer union: one record shape, inactive members at their defaults,
\* so that record equality is the union's operator==.
Preset(p) == [tag |-> "preset", preset |-> p, bandLevels |-> <<>>]
BandLevels(bl) == [tag |-> "bandLevels", preset |-> 0, bandLevels |-> bl]
VendorEq == [tag |-> "vendor", preset |-> 0, bandLevels |-> <<>>]

\* Parameter union holding Parameter::Specific holding Equalizer
\* (expectParam.set<Parameter::specific>(specific), lines 135-138)
SpecificParam(eq) == [ptag |-> "specific", stag |-> "equalizer", eq |-> eq]
\* `Parameter getParam;` (line 145): a default-constructed Parameter, whose
\* active member is not Parameter::specific; left untouched by a failed read.
DefaultParam == [ptag |-> "common", stag |-> "none", eq |-> VendorEq]
\* a Parameter::specific that carries another effect's union member
OtherSpecificParam == [ptag |-> "specific", stag |-> "other", eq |-> VendorEq]

\* all sequences over S of length 0..n
SeqsUpTo(S, n) == UNION {[1..k -> S] : k \in 0..n}

VARIABLES
    pc,            \* position of the test instance
    test,          \* which TEST_P body runs
    cap,           \* Equalizer::Capability the service reports
    mBandLevel,    \* PARAM_BAND_LEVEL
    mEffect,       \* "null" or "effect"
    opened,        \* service side: open() succeeded
    mPresetIndex,  \* <<min, max>>
    mBandIndex,    \* <<min, max>>
    mTags,         \* queued scenarios
    it,            \* loop position in SetAndGetEqualizerParameters
    calls,         \* history: calls issued to the factory / effect
    failures,      \* scenarios with a recorded non-fatal failure
    rEq,           \* SpecRange: the setting validated
    rDone,         \* SpecRange: isTagInRange has been applied
    rValid,        \* SpecRange: its result
    expect,        \* SpecCmp: expected Parameter
    target,        \* SpecCmp: observed Parameter
    normBl,        \* SpecCmp: expectBl after sort + unique
    verdict        \* SpecCmp: "none", "true", "false" or "abort"

vars == <<pc, test, cap, mBandLevel, mEffect, opened, mPresetIndex, mBandIndex,
          mTags, it, calls, failures, rEq, rDone, rValid, expect, target,
          normBl, verdict>>

lifeVars == <<pc, test, cap, mBandLevel, mEffect, opened, mTags, it, calls, failures>>
rangeVars == <<rEq, rDone, rValid>>
cmpVars == <<expect, target, normBl, verdict>>

\* --------------------------------------------------------- range validator
\* isBandInRange with the loop left after its first entry
isBandInRangeFirstOnly(bandLevel) ==
    \/ bandLevel = <<>>
    \/ ~(Head(bandLevel).index < mBandIndex[1] \/ Head(bandLevel).index > mBandIndex[2])

\* lines 228-233
RECURSIVE isBandInRange(_)
isBandInRange(bandLevel) ==
    IF bandLevel = <<>> THEN TRUE
    ELSE IF Head(bandLevel).index < mBandIndex[1] \/ Head(bandLevel).index > mBandIndex[2]
         THEN FALSE
         ELSE isBandInRange(Tail(bandLevel))

\* isTagInRange with the preset's upper bound compared strictly
isTagInRangeStrictUpper(tag, eq) ==
    CASE tag = "preset" -> eq.preset >= mPresetIndex[1] /\ eq.preset < mPresetIndex[2]
      [] tag = "bandLevels" -> isBandInRange(eq.bandLevels)
      [] OTHER -> FALSE

\* lines 212-226
isTagInRange(tag, eq) ==
    CASE tag = "preset" -> eq.preset >= mPresetIndex[1] /\ eq.preset <= mPresetIndex[2]
      [] tag = "bandLevels" -> isBandInRange(eq.bandLevels)
      [] OTHER -> FALSE

\* -------------------------------------------------------------- comparator
\* Equalizer::BandLevel::operator< as std::includes uses it (line 188):
\* the generated parcelable compares (index, levelMb) lexicographically.
BandLevelLess(a, b) ==
    \/ a.index < b.index
    \/ a.index = b.index /\ a.levelMb < b.levelMb

\* line 184-185: std::sort with a comparator on index alone.  std::sort is not
\* stable, so entries that share an index may come out in any order: every
\* index-sorted permutation is a possible result.
SortByIndex(bl) ==
    LET n == Len(bl)
        perms == {p \in [1..n -> 1..n] : \A i, j \in 1..n : i # j => p[i] # p[j]}
    IN {t \in {[i \in 1..n |-> bl[p[i]]] : p \in perms} :
            \A i \in 1..n : \A j \in 1..n : i < j => t[i].index <= t[j].index}

\* line 186: expectBl.erase(std::unique(begin, end), end) with operator==:
\* of each run of consecutive equal (index, levelMb) entries the first stays.
RECURSIVE Unique(_)
Unique(bl) ==
    IF Len(bl) <= 1 THEN bl
    ELSE IF bl[1] = bl[2] THEN Unique(Tail(bl))
         ELSE <<bl[1]>> \o Unique(Tail(bl))

\* lines 188-189: std::includes(targetBl, expectBl) as the library's loop
\*   for (; first2 != last2; ++first1) {
\*     if (first1 == last1 || *first2 < *first1) return false;
\*     if (!(*first1 < *first2)) ++first2; }
\*   return true;
RECURSIVE Includes(_, _)
Includes(targetBl, expectBl) ==
    IF expectBl = <<>> THEN TRUE
    ELSE IF targetBl = <<>> \/ BandLevelLess(Head(expectBl), Head(targetBl)) THEN FALSE
    ELSE IF ~BandLevelLess(Head(targetBl), Head(expectBl))
         THEN Includes(Tail(targetBl), Tail(expectBl))
         ELSE Includes(Tail(targetBl), expectBl)

\* lines 183-186: the possible values of expectBl after sort + unique
Normalise(bl) == {Unique(sb) : sb \in SortByIndex(bl)}

BoolStr(b) == IF b THEN "true" ELSE "false"

\* lines 159-198.  The EXPECT_EQ checks of lines 168-178 record a failure and
\* go on; the union accessor get<tag>() that follows terminates the process
\* when the active member is another one ("abort").  The result is the set of
\* possible outcomes [verdict, norm], norm being expectBl as compared.
isEqParameterExpected(expectP, targetP) ==
    IF expectP = targetP THEN {[verdict |-> "true", norm |-> <<>>]}
    ELSE IF expectP.ptag # "specific" \/ targetP.ptag # "specific"
         THEN {[verdict |-> "abort", norm |-> <<>>]}
    ELSE IF expectP.stag # "equalizer" \/ targetP.stag # "equalizer"
         THEN {[verdict |-> "abort", norm |-> <<>>]}
    ELSE CASE targetP.eq.tag = "bandLevels" ->
                IF expectP.eq.tag # "bandLevels"
                THEN {[verdict |-> "abort", norm |-> <<>>]}
                ELSE {[verdict |-> BoolStr(Includes(targetP.eq.bandLevels, nb)), norm |-> nb] :
                        nb \in Normalise(expectP.eq.bandLevels)}
           [] targetP.eq.tag = "preset" ->
                IF expectP.eq.tag # "preset"
                THEN {[verdict |-> "abort", norm |-> <<>>]}
                ELSE {[verdict |-> BoolStr(expectP.eq.preset = targetP.eq.preset), norm |-> <<>>]}
           [] OTHER -> {[verdict |-> "false", norm |-> <<>>]}

\* ------------------------------------------------------- capability model
\* std::minmax_element over the index field (lines 96-98, 102-104)
RECURSIVE MinIndex(_)
MinIndex(s) ==
    IF Len(s) = 1 THEN s[1]
    ELSE LET m == MinIndex(Tail(s)) IN IF m < s[1] THEN m ELSE s[1]

RECURSIVE MaxIndex(_)
MaxIndex(s) ==
    IF Len(s) = 1 THEN s[1]
    ELSE LET m == MaxIndex(Tail(s)) IN IF m < s[1] THEN s[1] ELSE m

\* What dereferencing end() of an empty list can yield (lines 99, 105)
GarbageInts == {-1, 0, 1}

\* lines 95-100 and 101-106 (the two functions differ only in the list they
\* scan).  On an empty list minmax_element returns {end, end} and the
\* dereference is undefined: the process may die or any pair may come back.
IndexRangeOutcomes(list) ==
    IF list # <<>>
    THEN {[crash |-> FALSE, range |-> <<MinIndex(list), MaxIndex(list)>>]}
    ELSE {[crash |-> TRUE, range |-> <<0, 0>>]}
         \cup {[crash |-> FALSE, range |-> <<a, b>>] : a, b \in GarbageInts}

setPresetIndexRange(c) == IndexRangeOutcomes(c.presets)
setBandIndexRange(c) == IndexRangeOutcomes(c.bandFrequencies)

\* ------------------------------------------------------------- test bodies
Tests == {"SetAndGetPresetOutOfLowerBound", "SetAndGetPresetOutOfUpperBound",
          "SetAndGetPresetAtLowerBound", "SetAndGetPresetAtHigherBound",
          "SetAndGetPresetInBound", "SetAndGetBandOutOfLowerBound",
          "SetAndGetBandOutOfUpperBound", "SetAndGetBandAtLowerBound",
          "SetAndGetBandAtHigherBound", "SetAndGetBandInBound",
          "SetAndGetMultiBands", "SetAndGetMultipleParams"}

\* lines 200-204
addPresetParam(tags, preset) == Append(tags, [tag |-> "preset", eq |-> Preset(preset)])

\* lines 206-210
addBandLevelsParam(tags, bandLevels) ==
    Append(tags, [tag |-> "bandLevels", eq |-> BandLevels(bandLevels)])

\* (a + b) >> 1 on int: arithmetic shift, the floor of the half
Mid(r) == (r[1] + r[2]) \div 2

\* lines 250-322: what each TEST_P queues before it calls the driver
TestTags(t) ==
    CASE t = "SetAndGetPresetOutOfLowerBound" -> addPresetParam(<<>>, mPresetIndex[2] - 1)
      [] t = "SetAndGetPresetOutOfUpperBound" -> addPresetParam(<<>>, mPresetIndex[2] + 1)
      [] t = "SetAndGetPresetAtLowerBound" -> addPresetParam(<<>>, mPresetIndex[1])
      [] t = "SetAndGetPresetAtHigherBound" -> addPresetParam(<<>>, mPresetIndex[2])
      [] t = "SetAndGetPresetInBound" -> addPresetParam(<<>>, Mid(mPresetIndex))
      [] t = "SetAndGetBandOutOfLowerBound" ->
            addBandLevelsParam(<<>>, <<BandLevel(mBandIndex[1] - 1, mBandLevel)>>)
      [] t = "SetAndGetBandOutOfUpperBound" ->
            addBandLevelsParam(<<>>, <<BandLevel(mBandIndex[2] + 1, mBandLevel)>>)
      [] t = "SetAndGetBandAtLowerBound" ->
            addBandLevelsParam(<<>>, <<BandLevel(mBandIndex[1], mBandLevel)>>)
      [] t = "SetAndGetBandAtHigherBound" ->
            addBandLevelsParam(<<>>, <<BandLevel(mBandIndex[2], mBandLevel)>>)
      [] t = "SetAndGetBandInBound" ->
            addBandLevelsParam(<<>>, <<BandLevel(Mid(mBandIndex), mBandLevel)>>)
      [] t = "SetAndGetMultiBands" ->
            addBandLevelsParam(addPresetParam(<<>>, mPresetIndex[1]),
                               <<BandLevel(mBandIndex[1], mBandLevel),
                                 BandLevel(mBandIndex[2], mBandLevel),
                                 BandLevel(Mid(mBandIndex), mBandLevel)>>)
      [] t = "SetAndGetMultipleParams" ->
            addPresetParam(addBandLevelsParam(<<>>, <<BandLevel(Mid(mBandIndex), mBandLevel)>>),
                           Mid(mPresetIndex))

\* ------------------------------------------------------ the effect service
BinderStatus == {"EX_NONE", "EX_ILLEGAL_ARGUMENT"}

\* descriptors the service may report: index lists of length 0..MaxCapLen
CapLists == SeqsUpTo(0..MaxIdx, MaxCapLen)

\* the full band state an implementation reports after a write of bl: one
\* entry per band of the capability, level 0 where bl has no entry
RECURSIVE LevelOf(_, _)
LevelOf(bl, i) ==
    IF bl = <<>> THEN 0
    ELSE IF Head(bl).index = i THEN Head(bl).levelMb ELSE LevelOf(Tail(bl), i)

FullState(bl) ==
    [k \in 1..Len(cap.bandFrequencies) |->
        BandLevel(cap.bandFrequencies[k], LevelOf(bl, cap.bandFrequencies[k]))]

\* Parameters a successful getParameter may hand back for a written setting
ReadBacks(eq) ==
    {SpecificParam(eq), SpecificParam(Preset(0)), SpecificParam(BandLevels(<<>>)),
     SpecificParam(BandLevels(FullState(eq.bandLevels)))}

call(op, k, status) == [op |-> op, k |-> k, status |-> status]

\* EffectHelper (EffectHelper.h, included at line 40): the fixture's helpers.
\* open: an error reply is a fatal setup failure
openIsFatal(status) == status # "EX_NONE"
\* close: the effect's close() is called on whatever effect the fixture holds
closeIsIssued(effect) == effect # "null"

\* ------------------------------------------------------------ Spec: a test
NoRange == <<0, 0>>

PureIdle ==
    /\ rEq = VendorEq /\ rDone = FALSE /\ rValid = FALSE
    /\ expect = DefaultParam /\ target = DefaultParam
    /\ normBl = <<>> /\ verdict = "none"

\* the fixture as constructed (lines 73-75), before SetUp
Init ==
    /\ pc = "create"
    /\ test \in Tests
    /\ cap \in [presets : CapLists, bandFrequencies : CapLists]
    /\ mBandLevel \in kBandLevels
    /\ mEffect = "null" /\ opened = FALSE
    /\ mPresetIndex = NoRange /\ mBandIndex = NoRange
    /\ mTags = <<>> /\ it = 1 /\ calls = <<>> /\ failures = {}
    /\ PureIdle

\* lines 78-79: create(mFactory, mEffect, mIdentity); a fatal failure leaves
\* SetUp, the body is skipped and TearDown runs
Create ==
    /\ pc = "create"
    /\ \E ok \in BOOLEAN :
        /\ calls' = Append(calls, call("createEffect", 0, IF ok THEN "EX_NONE" ELSE "EX_ILLEGAL_ARGUMENT"))
        /\ mEffect' = IF ok THEN "effect" ELSE "null"
        /\ pc' = IF ok THEN "open" ELSE "TearDown"
        /\ failures' = IF ok THEN failures ELSE failures \cup {0}
    /\ UNCHANGED <<test, cap, mBandLevel, opened, mPresetIndex, mBandIndex, mTags, it>>
    /\ UNCHANGED <<rangeVars, cmpVars>>

\* lines 81-87: open(mEffect, common, specific, &ret, EX_NONE)
Open ==
    /\ pc = "open"
    /\ \E status \in BinderStatus :
        /\ calls' = Append(calls, call("open", 0, status))
        /\ opened' = (status = "EX_NONE")
        /\ pc' = IF openIsFatal(status) THEN "TearDown" ELSE "setTagRange"
        /\ failures' = IF status = "EX_NONE" THEN failures ELSE failures \cup {0}
    /\ UNCHANGED <<test, cap, mBandLevel, mEffect, mPresetIndex, mBandIndex, mTags, it>>
    /\ UNCHANGED <<rangeVars, cmpVars>>

\* lines 88, 107-113: setTagRange
SetTagRange ==
    /\ pc = "setTagRange"
    /\ \E status \in BinderStatus :
        /\ calls' = Append(calls, call("getDescriptor", 0, status))
        /\ IF status # "EX_NONE"
           THEN /\ pc' = "TearDown"
                /\ failures' = failures \cup {0}
                /\ UNCHANGED <<mPresetIndex, mBandIndex>>
           ELSE \E p \in setPresetIndexRange(cap) :
                  IF p.crash
                  THEN /\ pc' = "crashed"
                       /\ UNCHANGED <<mPresetIndex, mBandIndex, failures>>
                  ELSE \E b \in setBandIndexRange(cap) :
                         /\ mPresetIndex' = p.range
                         /\ IF b.crash
                            THEN pc' = "crashed" /\ UNCHANGED mBandIndex
                            ELSE pc' = "TestBody" /\ mBandIndex' = b.range
                         /\ UNCHANGED failures
    /\ UNCHANGED <<test, cap, mBandLevel, mEffect, opened, mTags, it>>
    /\ UNCHANGED <<rangeVars, cmpVars>>

\* lines 250-322 up to the call of SetAndGetEqualizerParameters, and its
\* entry (line 125)
TestBody ==
    /\ pc = "TestBody"
    /\ mTags' = TestTags(test)
    /\ it' = 1
    /\ pc' = "set"
    /\ UNCHANGED <<test, cap, mBandLevel, mEffect, opened, mPresetIndex, mBandIndex, calls, failures>>
    /\ UNCHANGED <<rangeVars, cmpVars>>

\* where the loop of line 126 goes after scenario k
AfterScenario(k) == IF k + 1 > Len(mTags) THEN "TearDown" ELSE "set"

\* lines 127-144: validate, build expectParam, setParameter
SetParameter ==
    /\ pc = "set"
    /\ LET valid == isTagInRange(mTags[it].tag, mTags[it].eq)
           expected == IF valid THEN "EX_NONE" ELSE "EX_ILLEGAL_ARGUMENT"
       IN \E status \in BinderStatus :
            /\ calls' = Append(calls, call("setParameter", it, status))
            /\ failures' = IF status # expected THEN failures \cup {it} ELSE failures
            /\ IF expected = "EX_NONE"
               THEN pc' = "get" /\ it' = it
               ELSE pc' = AfterScenario(it) /\ it' = it + 1
    /\ UNCHANGED <<test, cap, mBandLevel, mEffect, opened, mPresetIndex, mBandIndex, mTags>>
    /\ UNCHANGED <<rangeVars, cmpVars>>

\* lines 145-155: getParameter and the comparison
GetParameter ==
    /\ pc = "get"
    /\ LET expectParam == SpecificParam(mTags[it].eq)
       IN \E status \in BinderStatus :
          \E getParam \in (IF status = "EX_NONE" THEN ReadBacks(mTags[it].eq) ELSE {DefaultParam}) :
          \E o \in isEqParameterExpected(expectParam, getParam) :
            /\ calls' = Append(calls, call("getParameter", it, status))
            /\ IF o.verdict = "abort"
               THEN /\ pc' = "crashed"
                    /\ failures' = failures \cup {it}
                    /\ it' = it
               ELSE /\ pc' = AfterScenario(it)
                    /\ it' = it + 1
                    /\ failures' = IF status # "EX_NONE" \/ o.verdict = "false"
                                   THEN failures \cup {it} ELSE failures
    /\ UNCHANGED <<test, cap, mBandLevel, mEffect, opened, mPresetIndex, mBandIndex, mTags>>
    /\ UNCHANGED <<rangeVars, cmpVars>>

\* lines 90-93: close(mEffect), destroy(mFactory, mEffect)
TearDown ==
    /\ pc = "TearDown"
    /\ IF ~closeIsIssued(mEffect)
       THEN calls' = calls /\ failures' = failures \cup {0}
       ELSE \E status \in BinderStatus :
              /\ calls' = calls \o <<call("close", 0, status), call("destroyEffect", 0, "EX_NONE")>>
              /\ failures' = IF status # "EX_NONE" THEN failures \cup {0} ELSE failures
    /\ pc' = "done"
    /\ UNCHANGED <<test, cap, mBandLevel, mEffect, opened, mPresetIndex, mBandIndex, mTags, it>>
    /\ UNCHANGED <<rangeVars, cmpVars>>

Next == Create \/ Open \/ SetTagRange \/ TestBody \/ SetParameter \/ GetParameter \/ TearDown

Spec == Init /\ [][Next]_vars

\* -------------------------------------------- SpecRange: the range validator
LifeIdle ==
    /\ pc = "pure" /\ test = "none"
    /\ cap = [presets |-> <<>>, bandFrequencies |-> <<>>]
    /\ mBandLevel = 0 /\ mEffect = "null" /\ opened = FALSE
    /\ mTags = <<>> /\ it = 1 /\ calls = <<>> /\ failures = {}

\* ranges a non-empty capability list yields
Ranges == {r \in (0..MaxIdx) \X (0..MaxIdx) : r[1] <= r[2]}

\* indices from one below the smallest range to one above the largest
ProbeIdx == (0 - 1)..(MaxIdx + 1)

RangeSettings ==
    {Preset(i) : i \in ProbeIdx}
    \cup {BandLevels(bl) : bl \in SeqsUpTo({BandLevel(i, 0) : i \in ProbeIdx}, MaxLen)}
    \cup {VendorEq}

InitRange ==
    /\ LifeIdle
    /\ mPresetIndex \in Ranges /\ mBandIndex \in Ranges
    /\ rEq \in RangeSettings
    /\ rDone = FALSE /\ rValid = FALSE
    /\ expect = DefaultParam /\ target = DefaultParam
    /\ normBl = <<>> /\ verdict = "none"

\* line 131: const bool valid = isTagInRange(it.first, it.second)
Validate ==
    /\ pc = "pure" /\ ~rDone
    /\ rDone' = TRUE
    /\ rValid' = isTagInRange(rEq.tag, rEq)
    /\ UNCHANGED <<lifeVars, mPresetIndex, mBandIndex, rEq, cmpVars>>

NextRange == Validate

SpecRange == InitRange /\ [][NextRange]_vars

\* ------------------------------------------------ SpecCmp: the comparator
Levels == {0, -10}
CmpEntries == {BandLevel(i, l) : i \in 0..1, l \in Levels}

\* expectParam is always built by lines 135-138 from a queued scenario
CmpExpects ==
    {SpecificParam(Preset(p)) : p \in 0..1}
    \cup {SpecificParam(BandLevels(bl)) : bl \in SeqsUpTo(CmpEntries, MaxExpectLen)}

\* getParam is whatever the service left in it
CmpTargets ==
    {DefaultParam, OtherSpecificParam, SpecificParam(VendorEq)}
    \cup {SpecificParam(Preset(p)) : p \in 0..1}
    \cup {SpecificParam(BandLevels(bl)) : bl \in SeqsUpTo(CmpEntries, MaxTargetLen)}

InitCmp ==
    /\ LifeIdle
    /\ mPresetIndex = NoRange /\ mBandIndex = NoRange
    /\ rEq = VendorEq /\ rDone = FALSE /\ rValid = FALSE
    /\ expect \in CmpExpects /\ target \in CmpTargets
    /\ normBl = <<>> /\ verdict = "none"

\* line 152: isEqParameterExpected(expectParam, getParam)
Compare ==
    /\ pc = "pure" /\ verdict = "none"
    /\ \E o \in isEqParameterExpected(expect, target) :
         /\ verdict' = o.verdict
         /\ normBl' = o.norm
    /\ UNCHANGED <<lifeVars, mPresetIndex, mBandIndex, rangeVars, expect, target>>

NextCmp == Compare

SpecCmp == InitCmp /\ [][NextCmp]_vars

\* ================================================================== claims
InRange(i, r) == r[1] <= i /\ i <= r[2]
CallIdx == DOMAIN calls
IsEqParam(p) == p.ptag = "specific" /\ p.stag = "equalizer"
BothBandLevels ==
    /\ IsEqParam(expect) /\ IsEqParam(target)
    /\ expect.eq.tag = "bandLevels" /\ target.eq.tag = "bandLevels"
\* the descriptor lists at least one preset and one band
CapNonEmpty == cap.presets # <<>> /\ cap.bandFrequencies # <<>>
InsertAt(sq, pos, e) == SubSeq(sq, 1, pos) \o <<e>> \o SubSeq(sq, pos + 1, Len(sq))

\* C1: for an expected write and an observed read that are both BandLevels,
\* the comparator answers true exactly when every (index, level) pair of the
\* expected list occurs in the observed list, whatever the order of either
\* list and whatever repeated entries the expected list has.
C1_SubsetLaw ==
    (verdict # "none" /\ BothBandLevels) =>
        (verdict = "true" <=>
            \A k \in DOMAIN expect.eq.bandLevels :
                \E j \in DOMAIN target.eq.bandLevels :
                    target.eq.bandLevels[j] = expect.eq.bandLevels[k])

\* C2: with min < max, isTagInRange is true for a setting whose index is min
\* or max and false for one whose index is min-1 or max+1, for the preset
\* index and for the band index; for Preset(i) it is true exactly when
\* presetMin <= i <= presetMax.
C2_Boundary ==
    /\ (rDone /\ rEq.tag = "preset") =>
          /\ rValid <=> InRange(rEq.preset, mPresetIndex)
          /\ mPresetIndex[1] < mPresetIndex[2] =>
                /\ rEq.preset \in {mPresetIndex[1], mPresetIndex[2]} => rValid
                /\ rEq.preset \in {mPresetIndex[1] - 1, mPresetIndex[2] + 1} => ~rValid
    /\ (rDone /\ rEq.tag = "bandLevels" /\ Len(rEq.bandLevels) = 1
              /\ mBandIndex[1] < mBandIndex[2]) =>
          /\ rEq.bandLevels[1].index \in {mBandIndex[1], mBandIndex[2]} => rValid
          /\ rEq.bandLevels[1].index \in {mBandIndex[1] - 1, mBandIndex[2] + 1} => ~rValid

\* C2 witness: a preset at the upper end of a range with min < max was
\* validated and accepted.
C2_Witness ==
    /\ rDone /\ rEq.tag = "preset"
    /\ mPresetIndex[1] < mPresetIndex[2]
    /\ rEq.preset = mPresetIndex[2]
    /\ rValid

\* C3: isTagInRange of a BandLevels setting is true exactly when every
\* entry's index lies in [bandMin, bandMax]; one out-of-range entry put into
\* an accepted list, at any position, makes the result false.
C3_Batch ==
    (rDone /\ rEq.tag = "bandLevels") =>
        /\ rValid <=> \A k \in DOMAIN rEq.bandLevels :
                          InRange(rEq.bandLevels[k].index, mBandIndex)
        /\ rValid =>
             \A pos \in 0..Len(rEq.bandLevels) :
             \A o \in ProbeIdx :
                ~InRange(o, mBandIndex) =>
                    ~isTagInRange("bandLevels",
                                  BandLevels(InsertAt(rEq.bandLevels, pos, BandLevel(o, 0))))

\* C3 witness: a list whose first entry is in range and whose last entry is
\* not was validated and rejected.
C3_Witness ==
    /\ rDone /\ rEq.tag = "bandLevels"
    /\ Len(rEq.bandLevels) >= 2
    /\ InRange(rEq.bandLevels[1].index, mBandIndex)
    /\ ~InRange(rEq.bandLevels[Len(rEq.bandLevels)].index, mBandIndex)
    /\ ~rValid

\* C4: getParameter is issued for a scenario only when its value is in range
\* and its setParameter succeeded, and only after that setParameter; for an
\* out-of-range scenario no getParameter is issued.  (Stated for descriptors
\* with non-empty lists, where the ranges are well defined.)
C4_GetOnlyAfterSuccessfulSet ==
    \A n \in CallIdx :
        (calls[n].op = "getParameter" /\ CapNonEmpty) =>
            /\ isTagInRange(mTags[calls[n].k].tag, mTags[calls[n].k].eq)
            /\ \E m \in 1..(n - 1) : calls[m] = call("setParameter", calls[n].k, "EX_NONE")

\* C5: the lower out-of-bound preset test writes presetMin - 1, which is out
\* of range, so no getParameter is issued, whenever presetMin <= presetMax.
C5_LowerBoundPreset ==
    (test = "SetAndGetPresetOutOfLowerBound" /\ mTags # <<>>
        /\ CapNonEmpty /\ mPresetIndex[1] <= mPresetIndex[2]) =>
        /\ mTags[1].eq.preset = mPresetIndex[1] - 1
        /\ ~isTagInRange(mTags[1].tag, mTags[1].eq)
        /\ \A n \in CallIdx : calls[n].op # "getParameter"

\* C6: when one of expected and observed is a Preset and the other a
\* BandLevels, the comparator returns false: it returns, and never true.
C6_VariantMismatchFalse ==
    (verdict # "none" /\ IsEqParam(expect) /\ IsEqParam(target)
        /\ {expect.eq.tag, target.eq.tag} = {"preset", "bandLevels"}) =>
        verdict = "false"

\* C7: once the test instance has ended, every queued scenario has had its
\* setParameter issued, in queue order, whatever failed in earlier scenarios.
C7_AllScenariosEvaluated ==
    (pc \in {"done", "crashed"} /\ mTags # <<>> /\ CapNonEmpty) =>
        /\ \A k \in DOMAIN mTags : \E n \in CallIdx :
                calls[n].op = "setParameter" /\ calls[n].k = k
        /\ \A n, m \in CallIdx :
                (n < m /\ calls[n].op = "setParameter" /\ calls[m].op = "setParameter")
                    => calls[n].k < calls[m].k

\* C8: open is called before getDescriptor and before any setParameter or
\* getParameter; close is called exactly once per created effect and only on
\* an effect that was opened; no setParameter or getParameter follows close.
C8_Lifecycle ==
    /\ \A n \in CallIdx :
          calls[n].op \in {"getDescriptor", "setParameter", "getParameter"} =>
              \E m \in 1..(n - 1) : calls[m].op = "open"
    /\ Cardinality({n \in CallIdx : calls[n].op = "close"}) <= 1
    /\ (pc = "done" /\ mEffect # "null") => \E n \in CallIdx : calls[n].op = "close"
    /\ \A n \in CallIdx :
          calls[n].op = "close" =>
              \E m \in 1..(n - 1) : calls[m] = call("open", 0, "EX_NONE")
    /\ \A n \in CallIdx :
          calls[n].op \in {"setParameter", "getParameter"} =>
              \A m \in 1..(n - 1) : calls[m].op # "close"

\* C9: after a successful getDescriptor the ranges are (min, max) of the
\* index over the preset list and over the band list; when one of the lists
\* is empty no range is produced and no scenario is evaluated.
SeqMin(sq) == CHOOSE x \in {sq[k] : k \in DOMAIN sq} : \A y \in {sq[k] : k \in DOMAIN sq} : x <= y
SeqMax(sq) == CHOOSE x \in {sq[k] : k \in DOMAIN sq} : \A y \in {sq[k] : k \in DOMAIN sq} : y <= x

C9_DeriveCapability ==
    (\E n \in CallIdx : calls[n] = call("getDescriptor", 0, "EX_NONE")) =>
        IF cap.presets # <<>> /\ cap.bandFrequencies # <<>>
        THEN /\ pc # "crashed" \/ mTags # <<>>
             /\ mPresetIndex = <<SeqMin(cap.presets), SeqMax(cap.presets)>>
             /\ mBandIndex = <<SeqMin(cap.bandFrequencies), SeqMax(cap.bandFrequencies)>>
        ELSE /\ pc \in {"crashed", "TearDown", "done"}
             /\ mTags = <<>>
             /\ \A n \in CallIdx : calls[n].op # "setParameter"

\* C10: the expected band list as compared is sorted by index and has at most
\* one entry per band index, namely the first written with that index, and
\* normalising it again leaves it unchanged.
C10_Normalised ==
    (verdict # "none" /\ BothBandLevels /\ expect # target) =>
        /\ \A i, j \in DOMAIN normBl : i < j => normBl[i].index < normBl[j].index
        /\ \A i \in DOMAIN normBl :
              \E k \in DOMAIN expect.eq.bandLevels :
                 /\ expect.eq.bandLevels[k] = normBl[i]
                 /\ \A h \in 1..(k - 1) : expect.eq.bandLevels[h].index # normBl[i].index
        /\ {e.index : e \in {expect.eq.bandLevels[k] : k \in DOMAIN expect.eq.bandLevels}}
              = {normBl[i].index : i \in DOMAIN normBl}
        /\ Normalise(normBl) = {normBl}

====
